---- MODULE Spec2Model ----
(***************************************************************************)
(* WebcamApp of src/src/yolo_trainer/cam.py: the background frame reader   *)
(* (video_reader), its lifecycle (start_video_stream, stop_video_stream),  *)
(* capture_frame, and the screenshot files and zip archives.                *)
(*                                                                         *)
(* Program positions are named after the source line they stand before:    *)
(* a caller at "s31" is about to execute line 31, a reader at "r54" is     *)
(* about to execute line 54.  One action is one line (or one run of lines  *)
(* that touch only the executing thread's locals).                         *)
(*                                                                         *)
(* Time passes in whole seconds (Tick).  The local `timeout` of            *)
(* capture_frame is kept as the seconds left until it (cleft); stamp is    *)
(* the current second as strftime("%Y%m%d_%H%M%S") prints it.  The sleeps  *)
(* of lines 57, 66 and 78 are steps during which any number of seconds may *)
(* pass.                                                                   *)
(***************************************************************************)
EXTENDS Integers, Sequences, FiniteSets

\* ---------------------------------------------------------------- bounds
NumCallers == 2   \* UI callbacks that may run at the same time
MaxThreads == 2   \* Thread objects that exist at the same time
MaxFrames == 2    \* distinct images the device can deliver
MaxShots == 2     \* take_screenshot() calls in one run
MaxZips == 2      \* create_zip_download() calls in one run
MaxOld == 2       \* screenshot files an earlier run left in the directory

\* ------------------------------------------------------ program constants
CaptureTimeout == 5   \* line 76: timeout = time.time() + 5

Callers == 1..NumCallers
Threads == 1..MaxThreads

None == <<>>
Frame(k) == <<k, 0, 0>>            \* an image the device delivers, as one BGR pixel
Frames == {Frame(k) : k \in 1..MaxFrames}
Free == <<>>                       \* frame_lock not held
Reader(t) == <<"reader", t>>       \* frame_lock held by reader thread t
Ui(c) == <<"ui", c>>               \* frame_lock held by UI caller c

\* what a method hands back: <<tag>> or <<tag, value>>
NoValue == <<"-">>                          \* nothing returned yet
RetNone == <<"None">>                       \* return None
RetFrame(f) == <<"frame", f>>               \* capture_frame: return frame_rgb
Raised(e) == <<"raised", e>>                \* the method left with exception e
Saved(name) == <<"saved", name>>            \* take_screenshot: the message of line 146, naming the file
ShotFailed == <<"failed">>                  \* take_screenshot: the message of line 147
NothingToClear == <<"nothing">>             \* clear_screenshots: the message of line 194
Cleared(n) == <<"cleared", n>>              \* clear_screenshots: the message of line 204, with count
Placeholder == <<"placeholder">>            \* get_screenshots_list: the message of line 92
Listing(names) == <<"listing", names>>      \* get_screenshots_list: the lines of line 108, as file names
NothingToArchive == <<"nothing to archive">>   \* create_zip_download: the result of line 153, no path
Archived(path, n, zip_list) == <<"archived", path, n, zip_list>>  \* create_zip_download: lines 164-168
ZipPlaceholder == <<"zip placeholder">>     \* get_zip_archives_list: the message of line 116
NoZipsToClear == <<"no zips">>              \* clear_zip_archives: the message of line 211
ClearedZips(n) == <<"cleared zips", n>>     \* clear_zip_archives: the message of line 221, with count

VARIABLES
  running,        \* self.running
  latest_frame,   \* self.latest_frame
  frame_lock,     \* self.frame_lock: Free or its holder
  video_thread,   \* self.video_thread: 0 (None) or a Thread object
  tpc,            \* per Thread object: "none" (no such object), "created", a line of video_reader, "exit51", "exit68"
  thandles,       \* per Thread object: device handles it opened and has not released
  tframe,         \* per Thread object: the local `frame` of video_reader
  stamp,          \* datetime.datetime.now() at the resolution of "%Y%m%d_%H%M%S": the current second
  cpc,            \* per caller: "idle", a line of the method it executes, "join", "ret"
  cop,            \* per caller: the method the UI invoked
  cleft,          \* per caller: timeout - time.time() of capture_frame, the seconds left (0: none)
  cjoin,          \* per caller: the Thread object it is joining
  cret,           \* per caller: the value the invoked method returned
  cname,          \* per caller: the local `timestamp` of take_screenshot and create_zip_download (-1: none)
  clist,          \* per caller: the local `screenshots` / `zip_files` of clear_* (what the loop has
                  \* still to visit) and `screenshots` of create_zip_download (the whole list)
  ccount,         \* per caller: the local `count` of clear_*; in create_zip_download the files
                  \* the loop of lines 161-162 has written
  cfailed,        \* per caller: unlink() calls of this clear_* that raised
  screenshots,    \* the screenshots directory: file name (the stamp in it) -> File
  nshots,         \* take_screenshot() calls so far
  nsaved,         \* take_screenshot() calls that wrote a file so far
  clears,         \* clear_screenshots() calls so far, counted up to 2
  zips,           \* the zip_archives directory: file name (the stamp in it) -> Archive
  nzips,          \* create_zip_download() calls so far
  tainted         \* callers in stop_video_stream() after whose begin a start_video_stream() was invoked

vars == <<running, latest_frame, frame_lock, video_thread, tpc, thandles, tframe,
          stamp, cpc, cop, cleft, cjoin, cret, cname, clist, ccount, cfailed,
          screenshots, nshots, nsaved, clears, zips, nzips, tainted>>

streamVars == <<running, latest_frame, frame_lock, video_thread>>
readerVars == <<tpc, thandles, tframe>>
zipVars == <<zips, nzips>>
fileVars == <<screenshots, nshots, nsaved, clears, zipVars>>
clearVars == <<cname, clist, ccount, cfailed>>

\* cv2.cvtColor(f, COLOR_BGR2RGB) and cv2.cvtColor(f, COLOR_RGB2BGR): swap channels 0 and 2
cvtColor(f) == <<f[3], f[2], f[1]>>

\* Thread.is_alive(): started and run() not finished
IsAlive(t) == tpc[t] \notin {"none", "created", "exit51", "exit68"}

AliveThreads == {t \in Threads : IsAlive(t)}

\* A Thread object nothing refers to any more (or that never existed): its slot can hold a new object
Collectable(t) == /\ ~IsAlive(t)
                  /\ video_thread # t
                  /\ \A c \in Callers : cjoin[c] # t

Init == /\ running = FALSE
        /\ latest_frame = None
        /\ frame_lock = Free
        /\ video_thread = 0
        /\ tpc = [t \in Threads |-> "none"]
        /\ thandles = [t \in Threads |-> 0]
        /\ tframe = [t \in Threads |-> None]
        /\ stamp = 0
        /\ cpc = [c \in Callers |-> "idle"]
        /\ cop = [c \in Callers |-> "none"]
        /\ cleft = [c \in Callers |-> 0]
        /\ cjoin = [c \in Callers |-> 0]
        /\ cret = [c \in Callers |-> NoValue]
        /\ cname = [c \in Callers |-> -1]
        /\ clist = [c \in Callers |-> <<>>]
        /\ ccount = [c \in Callers |-> 0]
        /\ cfailed = [c \in Callers |-> 0]
        /\ screenshots = <<>>
        /\ nshots = 0
        /\ nsaved = 0
        /\ clears = 0
        /\ zips = <<>>
        /\ nzips = 0
        /\ tainted = {}

\* the names (seconds before this run began) of the files an earlier run may have left
OldNames == {-(k + 1) : k \in 1..MaxOld}

\* The screenshots directory outlives the process, Path(...).mkdir(exist_ok=True) of
\* line 19 takes it as it is: the state after construction with any files of an
\* earlier run in it, each as take_screenshot wrote it (a BGR image) in the second it
\* is named after
ArchiveInit == /\ running = FALSE
               /\ latest_frame = None
               /\ frame_lock = Free
               /\ video_thread = 0
               /\ tpc = [t \in Threads |-> "none"]
               /\ thandles = [t \in Threads |-> 0]
               /\ tframe = [t \in Threads |-> None]
               /\ stamp = 0
               /\ cpc = [c \in Callers |-> "idle"]
               /\ cop = [c \in Callers |-> "none"]
               /\ cleft = [c \in Callers |-> 0]
               /\ cjoin = [c \in Callers |-> 0]
               /\ cret = [c \in Callers |-> NoValue]
               /\ cname = [c \in Callers |-> -1]
               /\ clist = [c \in Callers |-> <<>>]
               /\ ccount = [c \in Callers |-> 0]
               /\ cfailed = [c \in Callers |-> 0]
               /\ \E names \in SUBSET OldNames :
                    screenshots = [n \in names |-> [data |-> Frame(1), mtime |-> n]]
               /\ nshots = 0
               /\ nsaved = 0
               /\ clears = 0
               /\ zips = <<>>
               /\ nzips = 0
               /\ tainted = {}

\* ------------------------------------------------------------ call and return

\* the method returns v to the UI (or faults with v)
Return(c, v) == /\ cpc' = [cpc EXCEPT ![c] = "ret"]
                /\ cret' = [cret EXCEPT ![c] = v]

\* the UI takes the returned value; the callback is over
Done(c) == /\ cpc[c] = "ret"
           /\ cpc' = [cpc EXCEPT ![c] = "idle"]
           /\ cop' = [cop EXCEPT ![c] = "none"]
           /\ cret' = [cret EXCEPT ![c] = NoValue]
           /\ cleft' = [cleft EXCEPT ![c] = 0]
           /\ cname' = [cname EXCEPT ![c] = -1]
           /\ clist' = [clist EXCEPT ![c] = <<>>]
           /\ ccount' = [ccount EXCEPT ![c] = 0]
           /\ cfailed' = [cfailed EXCEPT ![c] = 0]
           /\ tainted' = tainted \ {c}
           /\ UNCHANGED <<streamVars, readerVars, stamp, cjoin, fileVars>>

\* the UI invokes method op, whose first line is executed and leads to `line`
Invoke(c, op, line) == /\ cpc[c] = "idle"
                       /\ cpc' = [cpc EXCEPT ![c] = line]
                       /\ cop' = [cop EXCEPT ![c] = op]

\* ------------------------------------------------- start_video_stream, 28-37

\* start_video_stream, called for method op, returns: to the UI, or into capture_frame
\* at line 76
StartReturns(c, op) == IF op = "start"
                   THEN Return(c, RetNone)
                   ELSE /\ cpc' = [cpc EXCEPT ![c] = "c76"]
                        /\ UNCHANGED cret

\* line 30: if self.video_thread is None or not self.video_thread.is_alive()
Line30(c, op) == IF video_thread = 0 \/ ~IsAlive(video_thread)
             THEN /\ cpc' = [cpc EXCEPT ![c] = "s31"]
                  /\ UNCHANGED cret
             ELSE StartReturns(c, op)

\* start_video_stream() is called by the UI and executes line 30
CallStart(c) == /\ cpc[c] = "idle"
                /\ cop' = [cop EXCEPT ![c] = "start"]
                /\ Line30(c, "start")
                /\ tainted' = {d \in Callers : cop[d] = "stop"}
                /\ UNCHANGED <<streamVars, readerVars, stamp, cleft, cjoin,
                               clearVars, fileVars>>

\* start_video_stream() is called by capture_frame (line 73) and executes line 30
S30(c) == /\ cpc[c] = "s30"
          /\ Line30(c, cop[c])
          /\ UNCHANGED <<streamVars, readerVars, stamp, cop, cleft, cjoin,
                         clearVars, fileVars, tainted>>

\* line 31: self.running = True
S31(c) == /\ cpc[c] = "s31"
          /\ running' = TRUE
          /\ cpc' = [cpc EXCEPT ![c] = "s32"]
          /\ UNCHANGED <<latest_frame, frame_lock, video_thread, readerVars, stamp, cop,
                         cleft, cjoin, cret, clearVars, fileVars, tainted>>

\* lines 32-36: self.video_thread = threading.Thread(target=self.video_reader, ...)
S32(c) == /\ cpc[c] = "s32"
          /\ \E t \in Threads :
               /\ Collectable(t)
               /\ \A u \in Threads : Collectable(u) => t <= u
               /\ tpc' = [tpc EXCEPT ![t] = "created"]
               /\ video_thread' = t
          /\ cpc' = [cpc EXCEPT ![c] = "s37"]
          /\ UNCHANGED <<running, latest_frame, frame_lock, thandles, tframe,
                         stamp, cop, cleft, cjoin, cret, clearVars, fileVars, tainted>>

\* line 37: self.video_thread.start(); a Thread object can be started once,
\* a second start() raises RuntimeError
S37(c) == /\ cpc[c] = "s37"
          /\ IF tpc[video_thread] = "created"
             THEN /\ tpc' = [tpc EXCEPT ![video_thread] = "r47"]
                  /\ StartReturns(c, cop[c])
             ELSE /\ Return(c, Raised("RuntimeError"))
                  /\ UNCHANGED tpc
          /\ UNCHANGED <<streamVars, thandles, tframe, stamp, cop, cleft,
                         cjoin, clearVars, fileVars, tainted>>

\* -------------------------------------------------- stop_video_stream, 39-43

\* stop_video_stream() that also drops the buffered frame
CallStop_DropsFrame(c) == /\ Invoke(c, "stop", "p42")
                          /\ running' = FALSE
                          /\ latest_frame' = None
                          /\ UNCHANGED <<frame_lock, video_thread, readerVars, stamp,
                                         cleft, cjoin, cret, clearVars, fileVars, tainted>>

\* cleanup() (lines 223-225) calls stop_video_stream(); line 41: self.running = False
CallStop(c) == /\ Invoke(c, "stop", "p42")
               /\ running' = FALSE
               /\ UNCHANGED <<latest_frame, frame_lock, video_thread, readerVars, stamp,
                              cleft, cjoin, cret, clearVars, fileVars, tainted>>

\* line 42: if self.video_thread and self.video_thread.is_alive()
P42(c) == /\ cpc[c] = "p42"
          /\ IF video_thread # 0 /\ IsAlive(video_thread)
             THEN /\ cpc' = [cpc EXCEPT ![c] = "p43"]
                  /\ UNCHANGED cret
             ELSE Return(c, RetNone)
          /\ UNCHANGED <<streamVars, readerVars, stamp, cop, cleft, cjoin,
                         clearVars, fileVars, tainted>>

\* line 43: self.video_thread.join() is entered: the attribute is read again;
\* join() of a Thread object that was not started raises RuntimeError
P43(c) == /\ cpc[c] = "p43"
          /\ IF tpc[video_thread] = "created"
             THEN /\ Return(c, Raised("RuntimeError"))
                  /\ UNCHANGED cjoin
             ELSE /\ cpc' = [cpc EXCEPT ![c] = "join"]
                  /\ cjoin' = [cjoin EXCEPT ![c] = video_thread]
                  /\ UNCHANGED cret
          /\ UNCHANGED <<streamVars, readerVars, stamp, cop, cleft,
                         clearVars, fileVars, tainted>>

\* line 43: join() returns once the joined thread has finished
Join(c) == /\ cpc[c] = "join"
           /\ ~IsAlive(cjoin[c])
           /\ cjoin' = [cjoin EXCEPT ![c] = 0]
           /\ Return(c, RetNone)
           /\ UNCHANGED <<streamVars, readerVars, stamp, cop, cleft,
                          clearVars, fileVars, tainted>>

\* ------------------------------------------------------- video_reader, 45-68

\* lines 47-51: cap = cv2.VideoCapture(url); if not cap.isOpened(): return
R47(t) == /\ tpc[t] = "r47"
          /\ \E ok \in BOOLEAN :
               IF ok
               THEN /\ thandles' = [thandles EXCEPT ![t] = @ + 1]
                    /\ tpc' = [tpc EXCEPT ![t] = "r53"]
               ELSE /\ tpc' = [tpc EXCEPT ![t] = "exit51"]
                    /\ UNCHANGED thandles
          /\ UNCHANGED <<streamVars, tframe, stamp, cpc, cop, cleft, cjoin,
                         cret, clearVars, fileVars, tainted>>

\* line 53: while self.running
R53(t) == /\ tpc[t] = "r53"
          /\ tpc' = [tpc EXCEPT ![t] = IF running THEN "r54" ELSE "r68"]
          /\ UNCHANGED <<streamVars, thandles, tframe, stamp, cpc, cop,
                         cleft, cjoin, cret, clearVars, fileVars, tainted>>

\* lines 54-58 without the cap.release() of line 58
R54_KeepsHandle(t) == /\ tpc[t] = "r54"
                      /\ \E f \in Frames \cup {None} :
                           IF f # None /\ thandles[t] > 0
                           THEN /\ tframe' = [tframe EXCEPT ![t] = f]
                                /\ tpc' = [tpc EXCEPT ![t] = "r62"]
                           ELSE /\ tpc' = [tpc EXCEPT ![t] = "r59"]
                                /\ UNCHANGED tframe
                      /\ UNCHANGED <<streamVars, thandles, stamp, cpc, cop, cleft, cjoin,
                                     cret, clearVars, fileVars, tainted>>

\* lines 54-58: ret, frame = cap.read(); the device delivers an image or the read fails
\* (f = None); a capture that is not open delivers nothing.  On a failure: print,
\* time.sleep(1), cap.release()
R54(t) == /\ tpc[t] = "r54"
          /\ \E f \in Frames \cup {None} :
               IF f # None /\ thandles[t] > 0
               THEN /\ tframe' = [tframe EXCEPT ![t] = f]
                    /\ tpc' = [tpc EXCEPT ![t] = "r62"]
                    /\ UNCHANGED thandles
               ELSE /\ thandles' = [thandles EXCEPT ![t] = IF @ > 0 THEN @ - 1 ELSE 0]
                    /\ tpc' = [tpc EXCEPT ![t] = "r59"]
                    /\ UNCHANGED tframe
          /\ UNCHANGED <<streamVars, stamp, cpc, cop, cleft, cjoin,
                         cret, clearVars, fileVars, tainted>>

\* lines 59-60: cap = cv2.VideoCapture(url); continue
R59(t) == /\ tpc[t] = "r59"
          /\ \E ok \in BOOLEAN :
               thandles' = [thandles EXCEPT ![t] = IF ok THEN @ + 1 ELSE @]
          /\ tpc' = [tpc EXCEPT ![t] = "r53"]
          /\ UNCHANGED <<streamVars, tframe, stamp, cpc, cop, cleft, cjoin,
                         cret, clearVars, fileVars, tainted>>

\* line 62: with self.frame_lock (acquire)
R62(t) == /\ tpc[t] = "r62"
          /\ frame_lock = Free
          /\ frame_lock' = Reader(t)
          /\ tpc' = [tpc EXCEPT ![t] = "r63"]
          /\ UNCHANGED <<running, latest_frame, video_thread, thandles, tframe,
                         stamp, cpc, cop, cleft, cjoin, cret, clearVars, fileVars,
                         tainted>>

\* line 63 keeping the frame the buffer already holds
R63_KeepsOlder(t) == /\ tpc[t] = "r63"
                     /\ latest_frame' = IF latest_frame = None THEN tframe[t] ELSE latest_frame
                     /\ frame_lock' = Free
                     /\ tframe' = [tframe EXCEPT ![t] = None]
                     /\ tpc' = [tpc EXCEPT ![t] = "r53"]
                     /\ UNCHANGED <<running, video_thread, thandles, stamp, cpc, cop,
                                    cleft, cjoin, cret, clearVars, fileVars, tainted>>

\* lines 63-66: self.latest_frame = frame.copy(); the with block releases the lock;
\* time.sleep(0.03)
R63(t) == /\ tpc[t] = "r63"
          /\ latest_frame' = tframe[t]
          /\ frame_lock' = Free
          /\ tframe' = [tframe EXCEPT ![t] = None]
          /\ tpc' = [tpc EXCEPT ![t] = "r53"]
          /\ UNCHANGED <<running, video_thread, thandles, stamp, cpc, cop,
                         cleft, cjoin, cret, clearVars, fileVars, tainted>>

\* line 68: cap.release(); the thread function returns
R68(t) == /\ tpc[t] = "r68"
          /\ thandles' = [thandles EXCEPT ![t] = IF @ > 0 THEN @ - 1 ELSE 0]
          /\ tpc' = [tpc EXCEPT ![t] = "exit68"]
          /\ UNCHANGED <<streamVars, tframe, stamp, cpc, cop, cleft, cjoin,
                         cret, clearVars, fileVars, tainted>>

\* ------------------------------------------------------ capture_frame, 70-84

\* lines 72-73: if not self.running: self.start_video_stream()
Line72 == IF ~running THEN "s30" ELSE "c76"

\* refresh_camera (lines 265-267) and the page load (line 380) call capture_frame(),
\* which executes line 72
CallCapture(c) == /\ Invoke(c, "capture", Line72)
                  /\ tainted' = IF ~running THEN {d \in Callers : cop[d] = "stop"} ELSE tainted
                  /\ UNCHANGED <<streamVars, readerVars, stamp, cleft, cjoin, cret,
                                 clearVars, fileVars>>

\* line 76: timeout = time.time() + 5
C76(c) == /\ cpc[c] = "c76"
          /\ cleft' = [cleft EXCEPT ![c] = CaptureTimeout]
          /\ cpc' = [cpc EXCEPT ![c] = "c77"]
          /\ UNCHANGED <<streamVars, readerVars, stamp, cop, cjoin, cret,
                         clearVars, fileVars, tainted>>

\* line 77 with the timeout taken a second too short
C77_Early(c) == /\ cpc[c] = "c77"
                /\ cpc' = [cpc EXCEPT ![c] =
                             IF latest_frame = None /\ cleft[c] > 1 THEN "c78" ELSE "c80"]
                /\ UNCHANGED <<streamVars, readerVars, stamp, cop, cleft, cjoin, cret,
                               clearVars, fileVars, tainted>>

\* line 77: while self.latest_frame is None and time.time() < timeout
C77(c) == /\ cpc[c] = "c77"
          /\ cpc' = [cpc EXCEPT ![c] =
                       IF latest_frame = None /\ cleft[c] > 0 THEN "c78" ELSE "c80"]
          /\ UNCHANGED <<streamVars, readerVars, stamp, cop, cleft, cjoin, cret,
                         clearVars, fileVars, tainted>>

\* line 78: time.sleep(0.1)
C78(c) == /\ cpc[c] = "c78"
          /\ cpc' = [cpc EXCEPT ![c] = "c77"]
          /\ UNCHANGED <<streamVars, readerVars, stamp, cop, cleft, cjoin, cret,
                         clearVars, fileVars, tainted>>

\* capture_frame returns v: to the UI, or into take_screenshot at line 137
CaptureReturns(c, v) == IF cop[c] = "capture"
                        THEN Return(c, v)
                        ELSE /\ cpc' = [cpc EXCEPT ![c] = "t137"]
                             /\ cret' = [cret EXCEPT ![c] = v]

\* lines 80-84: if self.latest_frame is not None: ... ; return None
\* (the local `timeout` is not read again: cleft is kept only on the way to return None)
C80(c) == /\ cpc[c] = "c80"
          /\ IF latest_frame # None
             THEN /\ cpc' = [cpc EXCEPT ![c] = "c82"]
                  /\ cleft' = [cleft EXCEPT ![c] = 0]
                  /\ UNCHANGED cret
             ELSE /\ CaptureReturns(c, RetNone)
                  /\ UNCHANGED cleft
          /\ UNCHANGED <<streamVars, readerVars, stamp, cop, cjoin,
                         clearVars, fileVars, tainted>>

\* lines 82-83: frame_rgb = cv2.cvtColor(self.latest_frame, cv2.COLOR_BGR2RGB); return frame_rgb
C82(c) == /\ cpc[c] = "c82"
          /\ CaptureReturns(c, RetFrame(cvtColor(latest_frame)))
          /\ UNCHANGED <<streamVars, readerVars, stamp, cop, cleft, cjoin,
                         clearVars, fileVars, tainted>>

\* ------------------------------------------------------ the screenshots directory

\* a file of the directory: what cv2.imwrite stored and its st_mtime
File(data, mtime) == [data |-> data, mtime |-> mtime]

\* the directory after `name` is written (created, or overwritten when it exists)
WriteFile(dir, name, file) == [n \in DOMAIN dir \cup {name} |-> IF n = name THEN file ELSE dir[n]]

\* the directory after `name` is unlinked
Unlink(dir, name) == [n \in DOMAIN dir \ {name} |-> dir[n]]

\* Path(self.screenshots_dir).glob("*.jpg"), as a list (here in the order of the names)
RECURSIVE Glob(_)
Glob(names) == IF names = {} THEN <<>>
               ELSE LET n == CHOOSE x \in names : \A y \in names : x <= y
                    IN <<n>> \o Glob(names \ {n})

\* line 89: screenshots.sort(key=st_mtime, reverse=True); files of one second by name
RECURSIVE NewestFirst(_, _)
NewestFirst(dir, names) ==
  IF names = {} THEN <<>>
  ELSE LET n == CHOOSE x \in names : \A y \in names :
                    \/ dir[x].mtime > dir[y].mtime
                    \/ dir[x].mtime = dir[y].mtime /\ x >= y
       IN <<n>> \o NewestFirst(dir, names \ {n})

\* ------------------------------------------------------ take_screenshot, 134-147

\* screenshot_handler (lines 269-273) calls take_screenshot(); line 136 calls
\* capture_frame(), which executes line 72
CallScreenshot(c) == /\ nshots < MaxShots
                     /\ Invoke(c, "screenshot", Line72)
                     /\ nshots' = nshots + 1
                     /\ tainted' = IF ~running THEN {d \in Callers : cop[d] = "stop"} ELSE tainted
                     /\ UNCHANGED <<streamVars, readerVars, stamp, cleft, cjoin, cret,
                                    clearVars, screenshots, nsaved, clears, zipVars>>

\* lines 137-140: if frame is not None: timestamp = now().strftime(...); filename = ...
\* line 147: return "截图失败", None
T137(c) == /\ cpc[c] = "t137"
           /\ IF cret[c][1] = "frame"
              THEN /\ cname' = [cname EXCEPT ![c] = stamp]
                   /\ cpc' = [cpc EXCEPT ![c] = "t144"]
                   /\ UNCHANGED cret
              ELSE /\ Return(c, ShotFailed)
                   /\ UNCHANGED cname
           /\ UNCHANGED <<streamVars, readerVars, stamp, cop, cleft, cjoin,
                          clist, ccount, cfailed, fileVars, tainted>>

\* lines 143-146: frame_bgr = cvtColor(frame, RGB2BGR); cv2.imwrite(filepath, frame_bgr);
\* return f"截图已保存: {filename}", frame.  imwrite returns False when it cannot encode
\* or write; its result is not looked at
T144(c) == /\ cpc[c] = "t144"
           /\ \E ok \in BOOLEAN :
                /\ screenshots' = IF ok
                                  THEN WriteFile(screenshots, cname[c],
                                                 File(cvtColor(cret[c][2]), stamp))
                                  ELSE screenshots
                /\ nsaved' = IF ok THEN nsaved + 1 ELSE nsaved
           /\ Return(c, Saved(cname[c]))
           /\ UNCHANGED <<streamVars, readerVars, stamp, cop, cleft, cjoin,
                          clearVars, nshots, clears, zipVars, tainted>>

\* ---------------------------------------------------- clear_screenshots, 189-204

\* clear_handler (lines 285-289) calls clear_screenshots()
\* lines 191-196: screenshots = list(glob("*.jpg")); if not screenshots: return ...; count = 0
CallClear(c) == /\ cpc[c] = "idle"
                /\ cop' = [cop EXCEPT ![c] = "clear"]
                /\ clears' = IF clears < 2 THEN clears + 1 ELSE clears
                /\ IF DOMAIN screenshots = {}
                   THEN /\ Return(c, NothingToClear)
                        /\ UNCHANGED clist
                   ELSE /\ clist' = [clist EXCEPT ![c] = Glob(DOMAIN screenshots)]
                        /\ cpc' = [cpc EXCEPT ![c] = "k198"]
                        /\ UNCHANGED cret
                /\ UNCHANGED <<streamVars, readerVars, stamp, cleft, cjoin,
                               cname, ccount, cfailed, screenshots, nshots, nsaved, zipVars, tainted>>

\* the loop of lines 197-202 left at the first unlink() that raises
K198_AbortsOnFailure(c) ==
  /\ cpc[c] = "k198"
  /\ clist[c] # <<>>
  /\ \E ok \in BOOLEAN :
       IF ok /\ Head(clist[c]) \in DOMAIN screenshots
       THEN /\ screenshots' = Unlink(screenshots, Head(clist[c]))
            /\ ccount' = [ccount EXCEPT ![c] = @ + 1]
            /\ clist' = [clist EXCEPT ![c] = Tail(@)]
            /\ UNCHANGED cfailed
       ELSE /\ cfailed' = [cfailed EXCEPT ![c] = @ + 1]
            /\ clist' = [clist EXCEPT ![c] = <<>>]
            /\ UNCHANGED <<screenshots, ccount>>
  /\ UNCHANGED <<streamVars, readerVars, stamp, cpc, cop, cleft, cjoin, cret,
                 cname, nshots, nsaved, clears, zipVars, tainted>>

\* lines 197-202, one turn of the loop: try: screenshot.unlink(); count += 1
\* except Exception: print.  unlink raises when the file is gone or cannot be deleted
K198(c) == /\ cpc[c] = "k198"
           /\ clist[c] # <<>>
           /\ \E ok \in BOOLEAN :
                IF ok /\ Head(clist[c]) \in DOMAIN screenshots
                THEN /\ screenshots' = Unlink(screenshots, Head(clist[c]))
                     /\ ccount' = [ccount EXCEPT ![c] = @ + 1]
                     /\ UNCHANGED cfailed
                ELSE /\ cfailed' = [cfailed EXCEPT ![c] = @ + 1]
                     /\ UNCHANGED <<screenshots, ccount>>
           /\ clist' = [clist EXCEPT ![c] = Tail(@)]
           /\ UNCHANGED <<streamVars, readerVars, stamp, cpc, cop, cleft, cjoin, cret,
                          cname, nshots, nsaved, clears, zipVars, tainted>>

\* line 204: return f"已清理 {count} 张截图"
K204(c) == /\ cpc[c] = "k198"
           /\ clist[c] = <<>>
           /\ Return(c, Cleared(ccount[c]))
           /\ UNCHANGED <<streamVars, readerVars, stamp, cop, cleft, cjoin,
                          clearVars, fileVars, tainted>>

\* ------------------------------------------------- get_screenshots_list, 86-108

\* update_screenshots_list (lines 297-299) and the handlers call get_screenshots_list()
\* lines 88-108: glob, sort newest first; "暂无截图" when there is none, else one line per file
CallList(c) == /\ cpc[c] = "idle"
               /\ cop' = [cop EXCEPT ![c] = "list"]
               /\ Return(c, IF DOMAIN screenshots = {}
                            THEN Placeholder
                            ELSE Listing(NewestFirst(screenshots, DOMAIN screenshots)))
               /\ UNCHANGED <<streamVars, readerVars, stamp, cleft, cjoin,
                              clearVars, fileVars, tainted>>

\* ------------------------------------------------- the zip_archives directory

\* a file of the directory: the entries zipf.write stored so far, each <<arcname, bytes>>,
\* and its st_mtime
Archive(entries, mtime) == [entries |-> entries, mtime |-> mtime]

\* get_zip_archives_list (lines 110-132): glob, sort newest first; "暂无压缩包" when there
\* is none, else one line per archive
get_zip_archives_list == IF DOMAIN zips = {}
                         THEN ZipPlaceholder
                         ELSE Listing(NewestFirst(zips, DOMAIN zips))

\* -------------------------------------------------- create_zip_download, 149-169

\* create_zip_download() that opens the archive before it looks at the list
CallZip_EmptyArchive(c) ==
  /\ nzips < MaxZips
  /\ cpc[c] = "idle"
  /\ cop' = [cop EXCEPT ![c] = "zip"]
  /\ nzips' = nzips + 1
  /\ zips' = WriteFile(zips, stamp, Archive(<<>>, stamp))
  /\ IF DOMAIN screenshots = {}
     THEN /\ Return(c, NothingToArchive)
          /\ UNCHANGED clist
     ELSE /\ clist' = [clist EXCEPT ![c] = Glob(DOMAIN screenshots)]
          /\ cpc' = [cpc EXCEPT ![c] = "z157"]
          /\ UNCHANGED cret
  /\ UNCHANGED <<streamVars, readerVars, stamp, cleft, cjoin,
                 cname, ccount, cfailed, screenshots, nshots, nsaved, clears, tainted>>

\* download_handler (lines 275-278) calls create_zip_download()
\* lines 151-154: screenshots = list(glob("*.jpg")); if not screenshots: return None, ...
CallZip(c) == /\ nzips < MaxZips
              /\ cpc[c] = "idle"
              /\ cop' = [cop EXCEPT ![c] = "zip"]
              /\ nzips' = nzips + 1
              /\ IF DOMAIN screenshots = {}
                 THEN /\ Return(c, NothingToArchive)
                      /\ UNCHANGED clist
                 ELSE /\ clist' = [clist EXCEPT ![c] = Glob(DOMAIN screenshots)]
                      /\ cpc' = [cpc EXCEPT ![c] = "z157"]
                      /\ UNCHANGED cret
              /\ UNCHANGED <<streamVars, readerVars, stamp, cleft, cjoin,
                             cname, ccount, cfailed, screenshots, nshots, nsaved, clears,
                             zips, tainted>>

\* lines 157-159: timestamp = now().strftime(...); zip_filename = ...; zip_path = ...
Z157(c) == /\ cpc[c] = "z157"
           /\ cname' = [cname EXCEPT ![c] = stamp]
           /\ cpc' = [cpc EXCEPT ![c] = "z161"]
           /\ UNCHANGED <<streamVars, readerVars, stamp, cop, cleft, cjoin, cret,
                          clist, ccount, cfailed, fileVars, tainted>>

\* line 161: with zipfile.ZipFile(zip_path, "w") as zipf: the file is created, or
\* truncated when it exists
Z161(c) == /\ cpc[c] = "z161"
           /\ zips' = WriteFile(zips, cname[c], Archive(<<>>, stamp))
           /\ cpc' = [cpc EXCEPT ![c] = "z162"]
           /\ UNCHANGED <<streamVars, readerVars, stamp, cop, cleft, cjoin, cret,
                          clearVars, screenshots, nshots, nsaved, clears, nzips, tainted>>

\* the archive directory after zipf.write added file n of the screenshots directory to
\* archive a; an archive that was unlinked meanwhile is written to outside the directory
ZipWrite(a, n) == IF a \in DOMAIN zips
                  THEN WriteFile(zips, a,
                                 Archive(Append(zips[a].entries, <<n, screenshots[n].data>>),
                                         stamp))
                  ELSE zips

\* lines 162-163, one turn of the loop: zipf.write(screenshot, screenshot.name).
\* A listed file that is gone makes zipf.write raise FileNotFoundError: nothing
\* catches it, the with block closes the archive and the method is left
Z162(c) == /\ cpc[c] = "z162"
           /\ ccount[c] < Len(clist[c])
           /\ LET n == clist[c][ccount[c] + 1]
              IN IF n \in DOMAIN screenshots
                 THEN /\ zips' = ZipWrite(cname[c], n)
                      /\ ccount' = [ccount EXCEPT ![c] = @ + 1]
                      /\ UNCHANGED <<cpc, cret>>
                 ELSE /\ Return(c, Raised("FileNotFoundError"))
                      /\ UNCHANGED <<zips, ccount>>
           /\ UNCHANGED <<streamVars, readerVars, stamp, cop, cleft, cjoin,
                          cname, clist, cfailed, screenshots, nshots, nsaved, clears,
                          nzips, tainted>>

\* lines 165-169: return zip_path, f"已创建包含 {len(screenshots)} 张截图的压缩包",
\* self.get_zip_archives_list()
Z165(c) == /\ cpc[c] = "z162"
           /\ ccount[c] = Len(clist[c])
           /\ Return(c, Archived(cname[c], Len(clist[c]), get_zip_archives_list))
           /\ UNCHANGED <<streamVars, readerVars, stamp, cop, cleft, cjoin,
                          clearVars, fileVars, tainted>>

\* --------------------------------------------------- clear_zip_archives, 206-221

\* clear_zips_handler (lines 291-295) calls clear_zip_archives()
\* lines 208-213: zip_files = list(glob("*.zip")); if not zip_files: return ...; count = 0
CallClearZips(c) == /\ cpc[c] = "idle"
                    /\ cop' = [cop EXCEPT ![c] = "clear_zips"]
                    /\ IF DOMAIN zips = {}
                       THEN /\ Return(c, NoZipsToClear)
                            /\ UNCHANGED clist
                       ELSE /\ clist' = [clist EXCEPT ![c] = Glob(DOMAIN zips)]
                            /\ cpc' = [cpc EXCEPT ![c] = "k215"]
                            /\ UNCHANGED cret
                    /\ UNCHANGED <<streamVars, readerVars, stamp, cleft, cjoin,
                                   cname, ccount, cfailed, fileVars, tainted>>

\* lines 214-219, one turn of the loop: try: zip_file.unlink(); count += 1
\* except Exception: print
K215(c) == /\ cpc[c] = "k215"
           /\ clist[c] # <<>>
           /\ \E ok \in BOOLEAN :
                IF ok /\ Head(clist[c]) \in DOMAIN zips
                THEN /\ zips' = Unlink(zips, Head(clist[c]))
                     /\ ccount' = [ccount EXCEPT ![c] = @ + 1]
                     /\ UNCHANGED cfailed
                ELSE /\ cfailed' = [cfailed EXCEPT ![c] = @ + 1]
                     /\ UNCHANGED <<zips, ccount>>
           /\ clist' = [clist EXCEPT ![c] = Tail(@)]
           /\ UNCHANGED <<streamVars, readerVars, stamp, cpc, cop, cleft, cjoin, cret,
                          cname, screenshots, nshots, nsaved, clears, nzips, tainted>>

\* line 221: return f"已清理 {count} 个压缩包"
K221(c) == /\ cpc[c] = "k215"
           /\ clist[c] = <<>>
           /\ Return(c, ClearedZips(ccount[c]))
           /\ UNCHANGED <<streamVars, readerVars, stamp, cop, cleft, cjoin,
                          clearVars, fileVars, tainted>>

\* ------------------------------------------------------------------- time

\* callers whose capture_frame reads the clock again (the loop of lines 77-78)
Waiting == {c \in Callers : cpc[c] \in {"c77", "c78"} /\ cleft[c] > 0}

\* a file carries the current second in its name or as its st_mtime,
\* or a take_screenshot or create_zip_download holds it in its local `timestamp`
StampUsed == \/ stamp \in DOMAIN screenshots \cup DOMAIN zips
             \/ \E n \in DOMAIN screenshots : screenshots[n].mtime = stamp
             \/ \E n \in DOMAIN zips : zips[n].mtime = stamp
             \/ \E c \in Callers : cname[c] = stamp

\* a second passes.  Seconds that nothing can tell apart are not counted: one passes
\* only while a capture_frame waits for its timeout or a file is named after the
\* current second, and the stamp moves on only from a second a file is named after
Tick == /\ Waiting # {} \/ StampUsed
        /\ cleft' = [c \in Callers |-> IF c \in Waiting THEN cleft[c] - 1 ELSE cleft[c]]
        /\ stamp' = IF StampUsed THEN stamp + 1 ELSE stamp
        /\ UNCHANGED <<streamVars, readerVars, cpc, cop, cjoin, cret,
                       clearVars, fileVars, tainted>>

\* ------------------------------------------------------------------- next

StreamCall(c) == \/ CallStart(c) \/ S31(c) \/ S32(c) \/ S37(c)
                 \/ CallStop(c) \/ P42(c) \/ P43(c) \/ Join(c)
                 \/ Done(c)

CaptureCall(c) == \/ CallCapture(c) \/ S30(c) \/ C76(c) \/ C77(c) \/ C78(c)
                  \/ C80(c) \/ C82(c)

ReaderStep(t) == \/ R47(t) \/ R53(t) \/ R54(t) \/ R59(t)
                 \/ R62(t) \/ R63(t) \/ R68(t)

ShotCall(c) == CallScreenshot(c) \/ T137(c) \/ T144(c)

ClearCall(c) == CallClear(c) \/ K198(c) \/ K204(c)

FileCall(c) == ShotCall(c) \/ ClearCall(c) \/ CallList(c)

ZipCall(c) == \/ CallZip(c) \/ Z157(c) \/ Z161(c) \/ Z162(c) \/ Z165(c)
              \/ CallClearZips(c) \/ K215(c) \/ K221(c)

\* UI callbacks run concurrently and call the stream methods
Next == \/ \E c \in Callers : StreamCall(c) \/ CaptureCall(c)
        \/ \E t \in Threads : ReaderStep(t)
        \/ Tick

Spec == Init /\ [][Next]_vars

\* one UI callback at a time calls any method; the reader threads run beside it
SerialNext == \/ StreamCall(1) \/ CaptureCall(1) \/ FileCall(1)
              \/ \E t \in Threads : ReaderStep(t)
              \/ Tick

SerialSpec == Init /\ [][SerialNext]_vars

\* the steps of a method that was invoked (not a new invocation, not the UI taking the result)
CallerProgress(c) == \/ S31(c) \/ S32(c) \/ S37(c)
                     \/ P42(c) \/ P43(c) \/ Join(c)

\* UI callbacks call start_video_stream() and stop_video_stream() concurrently
RaceNext == \/ \E c \in Callers : StreamCall(c)
            \/ \E t \in Threads : ReaderStep(t)

\* the scheduler is fair to every thread: a reader that can step does, a method that
\* was invoked goes on; every cap.read() returns (R54 is always enabled at line 54)
FairSpec == /\ Init /\ [][RaceNext]_vars
            /\ \A t \in Threads : WF_vars(ReaderStep(t))
            /\ \A c \in Callers : WF_vars(CallerProgress(c))

\* UI callbacks run concurrently and call the methods that work on the files
ArchiveNext == \/ \E c \in Callers : ZipCall(c) \/ ClearCall(c) \/ Done(c)
               \/ Tick

ArchiveSpec == ArchiveInit /\ [][ArchiveNext]_vars

\* one UI callback at a time calls the methods that work on the files
ArchiveSerialNext == \/ ZipCall(1) \/ ClearCall(1) \/ Done(1)
                     \/ Tick

ArchiveSerialSpec == ArchiveInit /\ [][ArchiveSerialNext]_vars

\* ===================================================================== claims

\* caller c has returned from method op and the UI has not taken the result yet
Returned(c, op) == cpc[c] = "ret" /\ cop[c] = op

\* in this step caller c's capture_frame returns None (line 84)
ReturnsNone(c) == cpc[c] = "c80" /\ cpc'[c] # "c80" /\ cret'[c] = RetNone

\* in this step caller c reads self.latest_frame (lines 77, 80, 82)
ReadsBuffer(c) == cpc[c] \in {"c77", "c80", "c82"} /\ cpc'[c] # cpc[c]

\* in this step reader t writes self.latest_frame (line 63)
WritesBuffer(t) == tpc[t] = "r63" /\ tpc'[t] # "r63"

NoHandleOpen == \A t \in Threads : thandles[t] = 0

\* C1: with calls made one after the other, the reader task is alive exactly when the
\* most recent completed call is start_video_stream(): alive after a start returned,
\* not alive after a stop returned.
C1_AliveIffLastCallWasStart ==
  \A c \in Callers : /\ Returned(c, "start") => AliveThreads # {}
                     /\ Returned(c, "stop") => AliveThreads = {}

\* C2: a reader task does not exit on its own when the device cannot be opened (it
\* never leaves through the return of line 51), and capture_frame() returns None only
\* with its timeout elapsed.
C2_ReaderRetriesOpenForever ==
  /\ \A t \in Threads : tpc[t] # "exit51"
  /\ \A c \in Callers : Returned(c, "capture") /\ cret[c] = RetNone => cleft[c] = 0

\* C3: while stop_video_stream() has returned and no start_video_stream() was invoked
\* after it began, no device handle is open.
C3_NoHandleAfterStop ==
  \A c \in Callers : Returned(c, "stop") /\ cret[c] = RetNone /\ c \notin tainted
                       => NoHandleOpen

\* C4: at most one background reader task is alive.
C4_AtMostOneReader == Cardinality(AliveThreads) <= 1

\* C5: every read and every write of latest_frame is made by a thread that holds
\* frame_lock.
C5_BufferOnlyUnderLock ==
  [][/\ \A c \in Callers : ReadsBuffer(c) => frame_lock = Ui(c)
     /\ \A t \in Threads : WritesBuffer(t) => frame_lock = Reader(t)]_vars

\* C6: with calls made one after the other, a capture_frame() invoked while no reader
\* task is alive does not go on to wait (line 76) without launching one: it skips
\* start_video_stream() only while a reader task is alive.
C6_CaptureLaunchesReader ==
  [][\A c \in Callers : cpc[c] = "idle" /\ cpc'[c] = "c76" => AliveThreads # {}]_vars

\* C7: capture_frame() returns None only with its 5 s timeout elapsed and the buffer
\* still empty: a frame that arrived during the wait is returned instead.
C7_NoneOnlyAfterTimeout ==
  [][\A c \in Callers : ReturnsNone(c) => cleft[c] = 0 /\ latest_frame = None]_vars

\* C7 witness: a capture_frame() has returned None, its timeout elapsed.
C7_Witness == \E c \in Callers : Returned(c, "capture") /\ cret[c] = RetNone /\ cleft[c] = 0

\* C8: once a frame is in the buffer, no step empties it, and with a frame in the
\* buffer capture_frame() neither sleeps (line 78) nor returns None.
C8_BufferNeverEmptiedAgain ==
  [][/\ latest_frame # None => latest_frame' # None
     /\ \A c \in Callers : latest_frame # None =>
          /\ ~(cpc[c] = "c77" /\ cpc'[c] = "c78")
          /\ ~ReturnsNone(c)]_vars

\* C8 witness: the stream was stopped, no reader task is alive any more (one left at
\* line 68), and a capture_frame() has returned a frame.
C8_Witness == /\ AliveThreads = {}
              /\ \E t \in Threads : tpc[t] = "exit68"
              /\ \E c \in Callers : Returned(c, "capture") /\ cret[c][1] = "frame"

\* C9: once stop_video_stream() has set running to False, every reader task alive
\* exits with its handle released, and stop_video_stream() returns.
C9_StopReturns ==
  /\ \A c \in Callers : (cop[c] = "stop" /\ cpc[c] # "ret") ~> (cpc[c] = "ret")
  /\ \A c \in Callers : \A t \in Threads :
       (cop[c] = "stop" /\ cpc[c] # "ret" /\ IsAlive(t)) ~> (~IsAlive(t) /\ thandles[t] = 0)

\* the number of files a returned clear_screenshots() reports as deleted
ClearedCount(c) == IF cret[c] = NothingToClear THEN 0 ELSE cret[c][2]

\* C10: the first clear_screenshots(), with every unlink succeeding, deletes as many
\* files as take_screenshot() calls saved one and leaves the directory empty; a
\* get_screenshots_list() of the empty directory returns the placeholder.
C10_ClearDeletesEverySaved ==
  \A c \in Callers :
    /\ Returned(c, "clear") /\ clears = 1 /\ cfailed[c] = 0
         => ClearedCount(c) = nsaved /\ DOMAIN screenshots = {}
    /\ Returned(c, "list") /\ DOMAIN screenshots = {} => cret[c] = Placeholder

\* in this step caller c's take_screenshot executes cv2.imwrite and returns (lines 144-146)
SavesShot(c) == cpc[c] = "t144" /\ cpc'[c] = "ret"

\* C11: every take_screenshot() that writes its frame writes it under a name that is
\* not in the screenshots directory, and no step changes the content of a file that
\* stays in the directory.
C11_SavesUnderFreshName ==
  [][/\ \A c \in Callers : SavesShot(c) /\ nsaved' # nsaved
                             => cname[c] \notin DOMAIN screenshots
     /\ \A n \in DOMAIN screenshots \cap DOMAIN screenshots' :
          screenshots'[n] = screenshots[n]]_vars

\* C12: take_screenshot() returns the success message naming a file only in a step in
\* which cv2.imwrite wrote the file; when imwrite fails it returns the failure message.
C12_SuccessOnlyIfWritten ==
  [][\A c \in Callers : SavesShot(c) =>
       IF nsaved' = nsaved + 1 THEN cret'[c][1] = "saved" ELSE cret'[c] = ShotFailed]_vars

\* in this step caller c invokes create_zip_download(), which lists the directory (line 151)
ListsForZip(c) == cpc[c] = "idle" /\ cop'[c] = "zip"

\* C13: create_zip_download() that finds no screenshot in the directory returns the
\* "nothing to archive" result at once and leaves the zip_archives directory as it
\* was; a call that returned that result never chose an archive name.
C13_NothingToArchive ==
  [][\A c \in Callers :
       /\ ListsForZip(c) /\ DOMAIN screenshots = {}
            => cret'[c] = NothingToArchive /\ cpc'[c] = "ret" /\ zips' = zips
       /\ cpc'[c] = "ret" /\ cret'[c] = NothingToArchive => cname'[c] = -1]_vars

\* C13 witness: a create_zip_download() has returned "nothing to archive" with the
\* screenshots directory empty, beside an archive an earlier call created.
C13_Witness == \E c \in Callers : /\ Returned(c, "zip") /\ cret[c] = NothingToArchive
                                  /\ DOMAIN screenshots = {}
                                  /\ DOMAIN zips # {}

\* C14: the buffer changes only when a reader completes its write (line 63) and then
\* holds that reader's frame, whatever it held before; a capture_frame() that returns
\* a frame returns (converted to RGB) the frame the buffer holds at its read of line
\* 82, which is the one of the latest completed write.
C14_LatestFrameWins ==
  [][/\ latest_frame' # latest_frame => \E t \in Threads : WritesBuffer(t)
     /\ \A t \in Threads : WritesBuffer(t) => latest_frame' = tframe[t]
     /\ \A c \in Callers : cpc[c] = "c82" /\ cpc'[c] # "c82"
                             => cret'[c] = RetFrame(cvtColor(latest_frame))]_vars

\* C14 witness: two capture_frame() calls have returned different frames, the buffer
\* was overwritten between their reads and holds the later frame.
C14_Witness == \E c, d \in Callers :
                 /\ Returned(c, "capture") /\ cret[c] = RetFrame(cvtColor(Frame(1)))
                 /\ Returned(d, "capture") /\ cret[d] = RetFrame(cvtColor(Frame(2)))
                 /\ latest_frame = Frame(2)

\* the lines of the loop of video_reader (lines 53-66)
InLoop == {"r53", "r54", "r59", "r62", "r63"}

\* C15: a reader task never holds more than one open handle: after a failed read it
\* has released its handle when it reopens the device (line 59) and holds at most the
\* new one at its next read; it stays in the loop whether the reopen succeeded or
\* not, and leaves it only at line 53 with running False; a read that succeeds
\* afterwards is stored in the buffer by the write of line 63.
C15_ReconnectsWithOneHandle ==
  [][\A t \in Threads :
       /\ thandles[t] <= 1 /\ thandles'[t] <= 1
       /\ tpc[t] = "r59" => thandles[t] = 0
       /\ tpc[t] = "r59" /\ tpc'[t] # "r59" => tpc'[t] = "r53"
       /\ tpc[t] \in InLoop /\ tpc'[t] \notin InLoop => tpc'[t] = "r68" /\ ~running
       /\ tpc[t] = "r54" /\ tpc'[t] = "r62" => thandles[t] = 1 /\ tframe'[t] \in Frames
       /\ tpc[t] = "r62" /\ tpc'[t] # "r62" => tpc'[t] = "r63"
       /\ WritesBuffer(t) => latest_frame' = tframe[t]]_vars

\* C15 witness: with a frame of an earlier read in the buffer, a read failed, the reopen
\* failed too (the task holds no handle) and the task is back at the loop test with
\* running True.
C15_Witness == \E t \in Threads : /\ tpc[t] = "r53" /\ thandles[t] = 0
                                  /\ running /\ latest_frame # None

\* in this step caller c's create_zip_download() comes to its end: it returns or faults
ZipEnds(c) == cop'[c] = "zip" /\ cpc[c] # "ret" /\ cpc'[c] = "ret"

\* the names of the entries of archive a, in the order written
EntryNames(a) == [i \in 1..Len(a.entries) |-> a.entries[i][1]]

\* C16: with clear_screenshots(), clear_zip_archives() and other create_zip_download()
\* calls running beside it, create_zip_download() never ends with a fault: it returns
\* "nothing to archive", or the path of an archive in the directory whose entries are
\* exactly the files it listed, with the count it reports equal to their number.
C16_ZipNeverFaults ==
  [][\A c \in Callers : ZipEnds(c) =>
       \/ cret'[c] = NothingToArchive
       \/ /\ cret'[c][1] = "archived"
          /\ cret'[c][2] \in DOMAIN zips'
          /\ EntryNames(zips'[cret'[c][2]]) = clist[c]
          /\ cret'[c][3] = Len(zips'[cret'[c][2]].entries)]_vars

\* the directory the clear_* method of caller c works on
ClearedDir(c) == IF cop[c] = "clear" THEN screenshots ELSE zips

\* the same directory after the step
ClearedDirAfter(c) == IF cop[c] = "clear" THEN screenshots' ELSE zips'

\* caller c is in the loop of clear_screenshots() or clear_zip_archives()
InClearLoop(c) == cpc[c] \in {"k198", "k215"}

\* C17: with calls made one after the other, every turn of the loop of clear_*()
\* goes on to the next listed file, whether its unlink() raised or not; the count
\* goes up exactly in the turns that removed the file, a file whose unlink() raised
\* stays; the files of the directory are at any moment those not yet visited and those
\* whose unlink() raised, and the method returns the count of the removed files.
C17_ClearGoesOnAfterFailure ==
  [][\A c \in Callers :
       /\ InClearLoop(c) =>
            Cardinality(DOMAIN ClearedDir(c)) = Len(clist[c]) + cfailed[c]
       /\ InClearLoop(c) /\ clist[c] # <<>> /\ clist'[c] # clist[c] =>
            /\ clist'[c] = Tail(clist[c])
            /\ IF cfailed'[c] = cfailed[c]
               THEN /\ DOMAIN ClearedDirAfter(c) = DOMAIN ClearedDir(c) \ {Head(clist[c])}
                    /\ ccount'[c] = ccount[c] + 1
               ELSE /\ ClearedDirAfter(c) = ClearedDir(c)
                    /\ ccount'[c] = ccount[c]
       /\ InClearLoop(c) /\ cpc'[c] = "ret" =>
            /\ clist[c] = <<>>
            /\ cret'[c][2] = ccount[c]
            /\ Cardinality(DOMAIN ClearedDir(c)) = cfailed[c]]_vars

\* C17 witness: clear_screenshots() listed two files, the unlink() of the first raised,
\* the second was removed, and the call has returned the count 1 with the first file
\* still in the directory.
C17_Witness == \E c \in Callers : /\ Returned(c, "clear") /\ cret[c] = Cleared(1)
                                  /\ cfailed[c] = 1
                                  /\ DOMAIN screenshots = {-(MaxOld + 1)}

====
